---- MODULE Spec2Model ----
(***************************************************************************)
(* Model of basic_pipelines/ipcamera_detection_pipeline.py: the            *)
(* GStreamerIPCameraApp constructor (model lookup, HEF path resolution,    *)
(* element creation, verification and linking) and its run / bus-handler / *)
(* cleanup life cycle.  GStreamer and GLib are the environment: the        *)
(* element factory may return None, Element.link returns a boolean or      *)
(* raises, set_state returns a StateChangeReturn, and the main loop        *)
(* dispatches at most one bus message before it notices a quit.            *)
(***************************************************************************)
EXTENDS Integers, Sequences, FiniteSets, TLC

\* ------------------------------------------------------------------ bounds
MaxMissing == 2       \* element factories that may return None at once
MaxBadLinks == 2      \* link calls that may fail at once
MaxExtCleanups == 2   \* cleanup() calls made by the caller itself

\* ------------------------------------------------------- module constants
HAILO8_MODELS ==
    << <<"yolov5m", <<"resources", "yolov5m_wo_spp.hef">> >>,
       <<"yolov8s", <<"resources", "yolov8s.hef">> >>,
       <<"yolov8m", <<"resources", "yolov8m.hef">> >>,
       <<"yolov6n", <<"resources", "yolov6n.hef">> >> >>

HAILO8L_MODELS ==
    << <<"yolov8s", <<"resources", "yolov8s_h8l.hef">> >>,
       <<"yolov6n", <<"resources", "yolov6n.hef">> >>,
       <<"yolox_s", <<"resources", "yolox_s_leaky_h8l_mz.hef">> >> >>

\* os.path.abspath(__file__): the module lives in <install>/basic_pipelines
ModuleFile == <<"install", "basic_pipelines", "ipcamera_detection_pipeline.py">>

\* model names a caller may pass: every registry key and one unknown name
ModelNames == {"yolov5m", "yolov8s", "yolov8m", "yolov6n", "yolox_s", "yolov7"}

\* ------------------------------------------------------------ dict / path
keys(models) == [i \in 1..Len(models) |-> models[i][1]]

has_key(models, k) == \E i \in 1..Len(models) : models[i][1] = k

lookup(models, k) == models[CHOOSE i \in 1..Len(models) : models[i][1] = k][2]

RECURSIVE str_join(_, _)
str_join(sep, parts) ==
    IF Len(parts) = 0 THEN <<>>
    ELSE IF Len(parts) = 1 THEN <<parts[1]>>
    ELSE <<parts[1], sep>> \o str_join(sep, Tail(parts))

dirname(p) == SubSeq(p, 1, Len(p) - 1)

path_join(a, b) == a \o b

path_exists_always(fs, p) == TRUE

path_exists(fs, p) == p \in fs

\* ---------------------------------------------------------------- errors
NoError == [kind |-> "None", msg |-> "", detail |-> <<>>]

Error(kind, msg, detail) == [kind |-> kind, msg |-> msg, detail |-> detail]

\* ------------------------------------------------------------ constructor
select_models_swapped(is_hailo8l) ==
    IF is_hailo8l THEN HAILO8_MODELS ELSE HAILO8L_MODELS

select_models(is_hailo8l) ==
    IF is_hailo8l THEN HAILO8L_MODELS ELSE HAILO8_MODELS

resources_dir == path_join(dirname(dirname(ModuleFile)), <<"resources">>)

resolve_hef_path(models, model_name) ==
    path_join(resources_dir, lookup(models, model_name))

\* ------------------------------------------------------- element creation
\* attribute names of the ten elements, in the order verify_elements walks
VerifyOrder ==
    <<"src", "jpegdec", "videoconvert", "videoscale", "capsfilter",
      "queue1", "queue2", "hailonet", "hailofilter", "sink">>

Stages == {VerifyOrder[i] : i \in 1..Len(VerifyOrder)}

\* the places in create_elements that touch a freshly made element, in
\* program order: "deref" is a set_property call on it, "guard" is an
\* explicit `if not element: raise RuntimeError(...)`
CreateChecks ==
    << <<"src", "deref">>, <<"queue1", "deref">>, <<"queue2", "deref">>,
       <<"capsfilter", "deref">>, <<"hailonet", "guard">>,
       <<"hailofilter", "guard">>, <<"sink", "deref">> >>

\* the nine link calls of add_and_link_elements, in program order
LinkOrder ==
    << <<"src", "jpegdec">>, <<"jpegdec", "videoconvert">>,
       <<"videoconvert", "videoscale">>, <<"videoscale", "capsfilter">>,
       <<"capsfilter", "queue1">>, <<"queue1", "hailonet">>,
       <<"hailonet", "hailofilter">>, <<"hailofilter", "queue2">>,
       <<"queue2", "sink">> >>

AllLinksOk == [i \in 1..Len(LinkOrder) |-> "ok"]

\* index of the first element of seq (a sequence of stage names, or of
\* pairs headed by one) that the factory failed to make; 0 if none
RECURSIVE first_none(_, _, _)
first_none(names, missing, i) ==
    IF i > Len(names) THEN 0
    ELSE IF names[i] \in missing THEN i
    ELSE first_none(names, missing, i + 1)

verify_elements(app, missing) ==
    LET n == first_none(VerifyOrder, missing, 1)
        added == IF n = 0 THEN VerifyOrder ELSE SubSeq(VerifyOrder, 1, n - 1)
    IN  [err |-> IF n = 0 THEN NoError
                 ELSE Error("RuntimeError", "Could not create", <<"None">>),
         app |-> [app EXCEPT !.elements = added]]

\* walks the link calls from call i on; a call that returns False is not
\* examined, a call that raises ends the walk in the except clause
RECURSIVE link_from(_, _, _)
link_from(i, linkres, done) ==
    IF i > Len(LinkOrder) THEN [err |-> NoError, links |-> done]
    ELSE IF linkres[i] = "raise"
         THEN [err |-> Error("RuntimeError", "Failed to link elements", <<>>),
               links |-> done]
    ELSE IF linkres[i] = "ok"
         THEN link_from(i + 1, linkres, done \cup {LinkOrder[i]})
    ELSE link_from(i + 1, linkres, done)

add_and_link_elements(app, linkres) ==
    LET r == link_from(1, linkres, {})
    IN  [err |-> r.err, app |-> [app EXCEPT !.links = r.links]]

create_elements(app, missing, linkres) ==
    LET checked == [i \in 1..Len(CreateChecks) |-> CreateChecks[i][1]]
        n == first_none(checked, missing, 1)
    IN  IF n # 0
        THEN [err |-> IF CreateChecks[n][2] = "deref"
                      THEN Error("AttributeError",
                                 "'NoneType' object has no attribute 'set_property'",
                                 <<>>)
                      ELSE Error("RuntimeError", "Could not create",
                                 <<CreateChecks[n][1]>>),
              app |-> app]
        ELSE LET v == verify_elements(app, missing)
             IN  IF v.err # NoError THEN v
                 ELSE add_and_link_elements(v.app, linkres)

\* the object before __init__ has assigned anything
NewApp ==
    [hef_path |-> <<>>, state |-> "NULL", elements |-> <<>>, links |-> {},
     probe |-> FALSE, watch |-> {}, has_loop |-> FALSE,
     loop_running |-> FALSE, quits |-> 0, stdout |-> <<>>]

GStreamerIPCameraApp(model_name, is_hailo8l, fs, missing, linkres) ==
    LET models == select_models(is_hailo8l)
    IN  IF ~has_key(models, model_name)
        THEN [err |-> Error("ValueError", "Model not found. Available models:",
                            str_join(", ", keys(models))),
              app |-> NewApp]
        ELSE
        LET a1 == [NewApp EXCEPT !.hef_path = resolve_hef_path(models, model_name)]
        IN  IF ~path_exists(fs, a1.hef_path)
            THEN [err |-> Error("RuntimeError", "HEF file not found at",
                                a1.hef_path),
                  app |-> a1]
            ELSE
            LET c == create_elements(a1, missing, linkres)
            IN  IF c.err # NoError THEN c
                ELSE [err |-> NoError,
                      app |-> [c.app EXCEPT !.probe = TRUE,
                                            !.watch = {"message::error",
                                                       "message::eos"}]]

\* ------------------------------------------------------- run-time methods
print(app, line) == [app EXCEPT !.stdout = Append(@, line)]

\* GLib.MainLoop.quit
loop_quit(app) == [app EXCEPT !.loop_running = FALSE, !.quits = @ + 1]

cleanup_nostop(app) ==
    LET a1 == print(app, "Cleaning up pipeline...")
    IN  [err |-> NoError,
         app |-> IF a1.has_loop /\ a1.loop_running THEN loop_quit(a1) ELSE a1]

cleanup_always_quit(app) ==
    LET a1 == print(app, "Cleaning up pipeline...")
        a2 == [a1 EXCEPT !.state = "NULL"]
    IN  IF ~a2.has_loop
        THEN [err |-> Error("AttributeError", "no attribute 'loop'", <<>>),
              app |-> a2]
        ELSE [err |-> NoError, app |-> loop_quit(a2)]

cleanup(app) ==
    LET a1 == print(app, "Cleaning up pipeline...")
        a2 == [a1 EXCEPT !.state = "NULL"]
    IN  [err |-> NoError,
         app |-> IF a2.has_loop /\ a2.loop_running THEN loop_quit(a2) ELSE a2]

on_error(app) ==
    LET a1 == print(print(app, "Pipeline error:"), "Debug info:")
        c == cleanup(a1)
    IN  IF c.err # NoError THEN c
        ELSE [err |-> NoError, app |-> loop_quit(c.app)]

on_eos(app) ==
    LET c == cleanup(print(app, "End of stream reached"))
    IN  IF c.err # NoError THEN c
        ELSE [err |-> NoError, app |-> loop_quit(c.app)]

StateChangeReturn == {"SUCCESS", "ASYNC", "NO_PREROLL", "FAILURE"}

\* run(), from its first line until the thread blocks inside loop.run()
run_start_unchecked(app, ret) ==
    [err |-> NoError,
     app |-> [app EXCEPT !.state = IF ret = "FAILURE" THEN @ ELSE "PLAYING",
                         !.has_loop = TRUE, !.loop_running = TRUE]]

run_start(app, ret) ==
    IF ret = "FAILURE"
    THEN [err |-> Error("RuntimeError",
                        "Unable to set the pipeline to the playing state", <<>>),
          app |-> app]
    ELSE [err |-> NoError,
          app |-> [app EXCEPT !.state = "PLAYING", !.has_loop = TRUE,
                              !.loop_running = TRUE]]

\* exceptions that can come out of loop.run(): "None" is a plain return
LoopOutcomes == {"None", "Exception", "KeyboardInterrupt"}

\* run(), from the moment loop.run() stops blocking to the end of the method
run_finish_nocleanup(app, exc) ==
    [err |-> IF exc = "None" THEN NoError
             ELSE Error(exc, "raised out of loop.run()", <<>>),
     app |-> IF exc = "Exception" THEN print(app, "Pipeline error:") ELSE app]

run_finish(app, exc) ==
    LET a1 == IF exc = "Exception" THEN print(app, "Pipeline error:") ELSE app
        c == cleanup(a1)
    IN  IF c.err # NoError THEN c
        ELSE [err |-> IF exc = "None" THEN NoError
                      ELSE Error(exc, "raised out of loop.run()", <<>>),
              app |-> c.app]

\* ------------------------------------------------------------------ state
VARIABLES
    pc,        \* where the caller's thread is
    app,       \* the GStreamerIPCameraApp object and what it printed
    raised,    \* the exception the last call raised to the caller
    inp,       \* constructor arguments and what the environment answered
    ret,       \* what pipeline.set_state(PLAYING) returned in run()
    exc,       \* the exception pending inside loop.run()
    exitPath,  \* what made the main loop stop
    nExt       \* cleanup() calls made by the caller itself

vars == <<pc, app, raised, inp, ret, exc, exitPath, nExt>>

\* the two places the HEF file of a model may have been installed
CandidateFiles(model_name, is_hailo8l) ==
    LET models == IF is_hailo8l THEN HAILO8L_MODELS ELSE HAILO8_MODELS
    IN  IF ~has_key(models, model_name) THEN {}
        ELSE LET rel == lookup(models, model_name)
             IN  {<<"install">> \o rel, <<"install", "resources">> \o rel}

MissingSets == {m \in SUBSET Stages : Cardinality(m) <= MaxMissing}

LinkResults ==
    UNION {{[i \in 1..Len(LinkOrder) |-> IF i \in DOMAIN f THEN f[i] ELSE "ok"] :
               f \in [b -> {"false", "raise"}]} :
           b \in {x \in SUBSET (1..Len(LinkOrder)) : Cardinality(x) <= MaxBadLinks}}

NoInput ==
    [model_name |-> "", is_hailo8l |-> FALSE, fs |-> {}, missing |-> {},
     linkres |-> AllLinksOk]

Init ==
    /\ pc = "start"
    /\ app = NewApp
    /\ raised = NoError
    /\ inp = NoInput
    /\ ret = "none"
    /\ exc = "None"
    /\ exitPath = "none"
    /\ nExt = 0

\* app = GStreamerIPCameraApp(callback, user_data, model_name, is_hailo8l).
\* Answers of the environment that the constructor never asks for are left
\* at their defaults.
Construct ==
    /\ pc = "start"
    /\ \E model_name \in ModelNames, is_hailo8l \in BOOLEAN :
       \E fs \in SUBSET CandidateFiles(model_name, is_hailo8l) :
       \E missing \in MissingSets :
          /\ GStreamerIPCameraApp(model_name, is_hailo8l, fs, {},
                                  AllLinksOk).err.kind \in {"ValueError"}
                => fs = {}
          /\ GStreamerIPCameraApp(model_name, is_hailo8l, fs, {},
                                  AllLinksOk).err # NoError
                => missing = {}
          /\ \E linkres \in LinkResults :
             /\ GStreamerIPCameraApp(model_name, is_hailo8l, fs, missing,
                                     AllLinksOk).err # NoError
                   => linkres = AllLinksOk
             /\ LET r == GStreamerIPCameraApp(model_name, is_hailo8l, fs,
                                              missing, linkres)
                IN  /\ app' = r.app
                    /\ raised' = r.err
                    /\ pc' = IF r.err = NoError THEN "constructed"
                             ELSE "ctor_failed"
                    /\ inp' = [model_name |-> model_name,
                               is_hailo8l |-> is_hailo8l, fs |-> fs,
                               missing |-> missing, linkres |-> linkres]
    /\ UNCHANGED <<ret, exc, exitPath, nExt>>

\* the caller (or a callback of the caller) calls app.cleanup()
ExternalCleanup ==
    /\ pc \in {"constructed", "in_loop", "returned", "run_raised"}
    /\ nExt < MaxExtCleanups
    /\ LET c == cleanup(app)
       IN  /\ app' = c.app
           /\ raised' = IF c.err # NoError THEN c.err ELSE raised
           /\ exitPath' = IF exitPath = "none" /\ app.loop_running
                          THEN "cleanup" ELSE exitPath
    /\ nExt' = nExt + 1
    /\ UNCHANGED <<pc, inp, ret, exc>>

\* app.run() up to the point where it blocks in loop.run()
RunStart ==
    /\ pc = "constructed"
    /\ \E r \in StateChangeReturn :
          LET s == run_start(app, r)
          IN  /\ ret' = r
              /\ app' = s.app
              /\ raised' = s.err
              /\ pc' = IF s.err = NoError THEN "in_loop" ELSE "run_raised"
    /\ UNCHANGED <<inp, exc, exitPath, nExt>>

\* the main loop dispatches a message::error from the bus
DispatchError ==
    /\ pc = "in_loop" /\ app.loop_running /\ app.state = "PLAYING"
    /\ "message::error" \in app.watch
    /\ app' = on_error(app).app
    /\ exitPath' = "error"
    /\ UNCHANGED <<pc, raised, inp, ret, exc, nExt>>

\* the main loop dispatches a message::eos from the bus
DispatchEos ==
    /\ pc = "in_loop" /\ app.loop_running /\ app.state = "PLAYING"
    /\ "message::eos" \in app.watch
    /\ app' = on_eos(app).app
    /\ exitPath' = "eos"
    /\ UNCHANGED <<pc, raised, inp, ret, exc, nExt>>

\* someone else (a signal handler, another callback) calls loop.quit()
ExternalQuit ==
    /\ pc = "in_loop" /\ app.loop_running
    /\ app' = loop_quit(app)
    /\ exitPath' = "quit"
    /\ UNCHANGED <<pc, raised, inp, ret, exc, nExt>>

\* loop.run() is about to raise instead of returning
LoopException ==
    /\ pc = "in_loop" /\ app.loop_running
    /\ \E e \in LoopOutcomes \ {"None"} : exc' = e
    /\ app' = [app EXCEPT !.loop_running = FALSE]
    /\ exitPath' = "exception"
    /\ UNCHANGED <<pc, raised, inp, ret, nExt>>

\* loop.run() stops blocking; except / finally run and run() ends
RunFinish ==
    /\ pc = "in_loop" /\ ~app.loop_running
    /\ LET f == run_finish(app, exc)
       IN  /\ app' = f.app
           /\ raised' = f.err
           /\ pc' = IF f.err = NoError THEN "returned" ELSE "run_raised"
    /\ UNCHANGED <<inp, ret, exc, exitPath, nExt>>

Next ==
    \/ Construct
    \/ ExternalCleanup
    \/ RunStart
    \/ DispatchError
    \/ DispatchEos
    \/ ExternalQuit
    \/ LoopException
    \/ RunFinish

Spec == Init /\ [][Next]_vars

\* loop.run() returns once the loop has been quit, and run() then runs to
\* its end
FairSpec == Spec /\ WF_vars(RunFinish)

\* ------------------------------------------------------------- properties
\* number of times cleanup() announced itself on stdout
RECURSIVE count_lines(_, _)
count_lines(out, line) ==
    IF Len(out) = 0 THEN 0
    ELSE (IF Head(out) = line THEN 1 ELSE 0) + count_lines(Tail(out), line)

\* cleanup() calls made by the bus handlers and by run() itself
OwnCleanups == count_lines(app.stdout, "Cleaning up pipeline...") - nExt

\* run() entered its main loop and has ended, by return or by exception
RunLeftLoop == pc \in {"returned", "run_raised"} /\ app.has_loop

\* C1 (as stated): on every exit path of run()'s main loop, cleanup() has
\* been executed exactly once in total by the bus handlers and run()'s
\* finally block.
C1_CleanupExactlyOnce == RunLeftLoop => OwnCleanups = 1

\* C1 (amended): on every exit path of run()'s main loop, run()'s finally
\* block executes cleanup() exactly once, and the bus handler has executed
\* it once more when the loop was quit by on_error or on_eos: two calls on
\* the handler paths, one call on the external-quit and exception paths.
C1_CleanupOncePlusHandler ==
    RunLeftLoop =>
        OwnCleanups = (IF exitPath \in {"error", "eos"} THEN 2 ELSE 1)

C1_Witness ==
    /\ pc = "returned" /\ exitPath = "error" /\ nExt = 0
    /\ count_lines(app.stdout, "Cleaning up pipeline...") = 2

\* C2: a message::error or message::eos dispatched while the pipeline is
\* PLAYING inside run() sets the pipeline to NULL and quits the main loop,
\* and run() then returns normally, raising nothing to the caller.
C2_BusTerminationStopsAndReturns ==
    /\ [][(exitPath = "none" /\ exitPath' \in {"error", "eos"}) =>
             /\ app.state = "PLAYING"
             /\ app'.state = "NULL"
             /\ app'.quits > app.quits
             /\ ~app'.loop_running]_vars
    /\ []((exitPath \in {"error", "eos"} /\ pc # "in_loop") =>
             (pc = "returned" /\ raised = NoError /\ app.state = "NULL"))
    /\ (exitPath \in {"error", "eos"}) ~> (pc = "returned")

C2_Witness ==
    /\ pc = "returned" /\ exitPath = "eos"
    /\ app.state = "NULL" /\ raised = NoError /\ app.quits >= 1

StandardKeys == {"yolov5m", "yolov8s", "yolov8m", "yolov6n"}

LiteKeys == {"yolov8s", "yolov6n", "yolox_s"}

SelectedKeys == IF inp.is_hailo8l THEN LiteKeys ELSE StandardKeys

\* the names a ', '-joined list mentions
Listed(detail) == {detail[i] : i \in 1..Len(detail)} \ {", "}

\* C3: a model name that is not a key of the registry selected by
\* is_hailo8l makes construction fail with ValueError, and the message
\* lists exactly the keys of the selected registry, each once.
C3_UnknownModelRejected ==
    (pc # "start" /\ inp.model_name \notin SelectedKeys) =>
        /\ pc = "ctor_failed"
        /\ raised.kind = "ValueError"
        /\ Listed(raised.detail) = SelectedKeys
        /\ Len(raised.detail) = 2 * Cardinality(SelectedKeys) - 1

C3_Witness ==
    /\ pc = "ctor_failed"
    /\ inp.model_name = "yolov5m" /\ inp.is_hailo8l
    /\ Listed(raised.detail) = {"yolov8s", "yolov6n", "yolox_s"}

\* C4: a model name that is a key of the selected registry but whose
\* resolved HEF file is not on disk makes construction fail with the
\* "HEF file not found" RuntimeError.
C4_MissingHefRejected ==
    (pc # "start" /\ inp.model_name \in SelectedKeys
        /\ app.hef_path \notin inp.fs) =>
        /\ pc = "ctor_failed"
        /\ raised = Error("RuntimeError", "HEF file not found at", app.hef_path)

C4_Witness ==
    /\ pc = "ctor_failed"
    /\ inp.model_name \in SelectedKeys
    /\ app.hef_path # <<>> /\ app.hef_path \notin inp.fs
    /\ raised.msg = "HEF file not found at"

\* C5 (as stated): for every valid (model name, variant) pair the resolved
\* path is <install>/resources/<model file name>, with the component
\* 'resources' occurring exactly once.
C5_HefPathUnderResources ==
    (pc # "start" /\ inp.model_name \in SelectedKeys) =>
        LET rel == lookup(IF inp.is_hailo8l THEN HAILO8L_MODELS
                          ELSE HAILO8_MODELS, inp.model_name)
        IN  /\ app.hef_path = <<"install", "resources", rel[Len(rel)]>>
            /\ count_lines(app.hef_path, "resources") = 1

\* C6 (as stated): whenever construction succeeds the pipeline holds
\* exactly the ten stages, chained source, decoder, converter, scaler,
\* caps filter, ingress queue, inference, postprocess, egress queue, sink,
\* with all nine consecutive links established.
C6_TenStagesFullyLinked ==
    pc = "constructed" =>
        LET chain == <<"src", "jpegdec", "videoconvert", "videoscale",
                       "capsfilter", "queue1", "hailonet", "hailofilter",
                       "queue2", "sink">>
        IN  /\ Len(app.elements) = 10
            /\ {app.elements[i] : i \in 1..Len(app.elements)}
                  = {chain[i] : i \in 1..10}
            /\ app.links = {<<chain[i], chain[i + 1]>> : i \in 1..9}

\* C7: cleanup() never raises; it leaves the pipeline in NULL, calls
\* loop.quit() exactly when the loop object exists and is running, and on
\* a pipeline that is already NULL it changes nothing but its log line.
\* This holds before run(), while the loop runs and after run() has ended.
C7_CleanupIdempotent ==
    [][(nExt' = nExt + 1) =>
          /\ app'.state = "NULL"
          /\ pc' = pc /\ raised' = raised
          /\ app'.quits = app.quits +
                (IF app.has_loop /\ app.loop_running THEN 1 ELSE 0)
          /\ ~app'.loop_running
          /\ (app.state = "NULL" =>
                [app' EXCEPT !.stdout = app.stdout] = app)]_vars

C7_Witness ==
    /\ nExt = 2 /\ pc = "constructed"
    /\ app.state = "NULL" /\ app.quits = 0 /\ raised = NoError

\* C8: when set_state(PLAYING) returns FAILURE, run() raises its
\* RuntimeError at once and no main loop is ever created or entered; on
\* any other return run() enters the main loop with the pipeline PLAYING.
C8_RejectedPlayingFailsFast ==
    /\ [][(pc = "constructed" /\ pc' # "constructed") =>
             IF ret' = "FAILURE"
             THEN /\ pc' = "run_raised"
                  /\ raised' = Error("RuntimeError",
                        "Unable to set the pipeline to the playing state", <<>>)
                  /\ ~app'.has_loop /\ ~app'.loop_running
             ELSE /\ pc' = "in_loop" /\ raised' = NoError
                  /\ app'.state = "PLAYING"
                  /\ app'.has_loop /\ app'.loop_running]_vars
    /\ [](ret = "FAILURE" => (pc = "run_raised" /\ ~app.has_loop))

C8_Witness ==
    /\ ret = "FAILURE" /\ pc = "run_raised" /\ ~app.has_loop
    /\ raised.kind = "RuntimeError"

\* C9 (as stated): whichever stage the factory fails to make, assembly
\* fails with the stage-creation RuntimeError naming a stage that could
\* not be created, and with no other kind of error.
C9_MissingStageNamed ==
    (pc # "start" /\ inp.missing # {}) =>
        /\ pc = "ctor_failed"
        /\ raised.kind = "RuntimeError"
        /\ raised.msg = "Could not create"
        /\ raised.detail \in {<<s>> : s \in inp.missing}

\* C10 (as stated): when one of the nine link calls reports failure,
\* assembly is aborted with the link RuntimeError, construction does not
\* succeed, and no pair after the failed one is linked.
C10_LinkFailureAborts ==
    (pc # "start" /\ \E i \in 1..Len(LinkOrder) : inp.linkres[i] # "ok") =>
        LET bad == CHOOSE i \in 1..Len(LinkOrder) :
                      /\ inp.linkres[i] # "ok"
                      /\ \A j \in 1..(i - 1) : inp.linkres[j] = "ok"
        IN  /\ pc = "ctor_failed"
            /\ raised.msg = "Failed to link elements"
            /\ \A j \in bad..Len(LinkOrder) : LinkOrder[j] \notin app.links
====
